---- MODULE Spec2Model ----
(***************************************************************************)
(* Model of the Sipeed NanoKVM integration (custom_components/nanokvm):    *)
(* the config entry set-up, the data update coordinator's refresh cycle    *)
(* (_async_update_data) with its re-authentication retry, and the entity   *)
(* and service operations that act on the device.                          *)
(*                                                                         *)
(* The device client (nanokvm.client.NanoKVMClient) and the host           *)
(* (homeassistant) are outside the repository.  Every client call is one   *)
(* step whose result is chosen by the environment among the results the    *)
(* code distinguishes.  A state between two steps is a point where the     *)
(* coroutine is suspended in an await, so other tasks of the event loop    *)
(* (entities reading the coordinator, the scheduled tick, an operation)    *)
(* see it.  The host runs one refresh of a coordinator at a time and       *)
(* async_request_refresh returns when the requested refresh has ended.     *)
(***************************************************************************)
EXTENDS Integers, Sequences, FiniteSets, TLC

(***************************************************************************)
(* Bounds of the model.                                                    *)
(***************************************************************************)
\* The device answers with values of generation 1..MaxGen; it changes its
\* state (moves to the next generation) at most MaxGen - 1 times.
MaxGen == 2
\* The counters of one refresh invocation (passes, re-authentications, read
\* calls, recursion depth) saturate at CountCap: _async_update_data itself
\* sets no limit on its recursion, so the counters have none either.
CountCap == 3
\* The power switch's turn_off polls at most MaxPolls times in the model.
MaxPolls == 4
\* What one await of the polling loop may take beyond the poll interval (the
\* refreshes awaited in between and the event loop's lateness): 0 or Lag.
Lag == 100

\* The time a refresh invocation has waited is counted up to Over units
\* beyond the timeout of the batch.
Over == 2
\* hass.data[DOMAIN] holds the coordinators of NumDevices config entries;
\* the first is the one whose set-up and refreshes are modelled.
NumDevices == 2
\* The durations given to push_button lie within Margin of the two ends of
\* the accepted range (and a few lie far from it).
Margin == 2

(***************************************************************************)
(* async_timeout.timeout(10) of _async_update_data.                        *)
(***************************************************************************)
BATCH_TIMEOUT == 10

TimeCap == BATCH_TIMEOUT + Over

(***************************************************************************)
(* Constants of PUSH_BUTTON_SCHEMA.                                        *)
(***************************************************************************)
DefaultDuration == 100

MinDuration == 100

MaxDuration == 5000

(***************************************************************************)
(* Constants of NanoKVMPowerSwitch.async_turn_off.                         *)
(***************************************************************************)
SHUTDOWN_TIMEOUT == 300

SHUTDOWN_POLL_INTERVAL == 5

(***************************************************************************)
(* The read calls of one pass, in the order of the source, and the         *)
(* coordinator attribute each one is assigned to.                          *)
(***************************************************************************)
ReadCallsSwapped ==
  << "get_info", "get_gpio", "get_hardware", "get_virtual_device_status",
     "get_ssh_state", "get_mdns_state", "get_hid_mode", "get_oled_info",
     "get_wifi_status", "get_mounted_image", "get_cdrom_status" >>

ReadCalls ==
  << "get_info", "get_hardware", "get_gpio", "get_virtual_device_status",
     "get_ssh_state", "get_mdns_state", "get_hid_mode", "get_oled_info",
     "get_wifi_status", "get_mounted_image", "get_cdrom_status" >>

FieldNames ==
  << "device_info", "hardware_info", "gpio_info", "virtual_device_info",
     "ssh_state", "mdns_state", "hid_mode", "oled_info", "wifi_status",
     "mounted_image", "cdrom_status" >>

NumReads == Len(ReadCalls)

FieldSet == { FieldNames[i] : i \in 1..NumReads }

CallSet == { ReadCalls[i] : i \in 1..NumReads }

\* Python's None, in the shape of a device reply so that TLC can compare them.
None == [call |-> "none", gen |-> 0, pwr |-> FALSE]

Min(a, b) == IF a < b THEN a ELSE b

Bump(n) == Min(n + 1, CountCap)

VARIABLES
  entry,        \* where async_setup_entry stands for the config entry
  setupErr,     \* the call of lines 103-104 that raised in the last set-up, and how
  hass,         \* what set-up has left in the host: the coordinator in
                \* hass.data, the entity platforms, the services
  token,        \* client.token is set
  fields,       \* the coordinator's attributes device_info .. cdrom_status
  data,         \* coordinator.data: the dict of the last successful refresh
  rpc,          \* position in _async_update_data: idle, auth, read, reauth,
                \* ended (it returned or raised, its caller not yet resumed)
  idx,          \* the next read call of the pass, 1..NumReads
  depth,        \* number of recursive calls of _async_update_data in progress
  caller,       \* who awaits the running (or just ended) refresh
  outcome,      \* how the last refresh invocation ended
  gen,          \* device: generation of the values it returns
  devPwr,       \* device: the power LED line (gpio pwr)
  batch,        \* time passed inside the running async_timeout.timeout(10) block
  \* history of the current (or last) refresh invocation
  elapsed,      \* time the invocation has waited on device calls, up to TimeCap
  startFields,  \* fields when the invocation started
  gpioReply,    \* pwr of the last get_gpio reply in the invocation: none, on, off
  passes,       \* times the batch of read calls was started
  reauths,      \* authenticate calls made in answer to a rejection (line 301)
  reads,        \* read calls issued
  sinceAuth,    \* read calls of the running pass that have returned
  initAuth,     \* result of the authenticate of line 267: none, ok, auth, comm
  lastReauth,   \* result of the last authenticate of line 301: none, ok, failed
  failedCall,   \* the call whose error ended a pass: none, authenticate, read, reauthenticate
  failKind,     \* that error: none, auth, comm, timeout
  \* the operation (entity method or service handler) in progress
  op,           \* none, switch_on, switch_off, button, power_on, power_off, or
                \* the name of a service
  opPc,         \* its position
  opResult,     \* none, ok, error (it raised), confirmed, not_confirmed
  waited,       \* power_off: loop.time() - start_time, up to SHUTDOWN_TIMEOUT
  \* history of the operation
  opIssued,     \* control calls that returned without error
  opRefreshes,  \* async_request_refresh calls
  polls,        \* power_off: iterations of the polling loop started
  slept,        \* power_off: seconds asked of asyncio.sleep in the loop
  offSince,     \* power_off: the poll since which every get_gpio answered off,
                \* 0 when none has or when the last answer was on
  offSeen,      \* power_off: gpio_info was off when the button was pushed, or
                \* a get_gpio has answered off since
  okOff,        \* power_off: a refresh has ended in success since the button
                \* was pushed, and its get_gpio answered off
  \* a service call of the domain, from the host's validation to the
  \* handler's return
  svcPc,        \* none, schema, handler, returned, rejected, raised
  svcName,      \* the service called
  svcData,      \* the call's data as the caller gave them
  svcArgs,      \* the arguments the handler passes to the client
  svcNext,      \* the position of the handler's loop in hass.data[DOMAIN]
  svcSent,      \* the devices whose client was called
  svcFailed,    \* the devices whose client raised
  entries,      \* the config entries of the domain, in the order of creation
  advert,       \* per device, what its zeroconf record carries as "id"
  flow          \* the config flow in progress

coordVars == << token, fields, data >>
refreshVars == << rpc, idx, depth, caller, outcome >>
deviceVars == << gen, devPwr >>
histVars == << startFields, gpioReply, passes, reauths, reads, sinceAuth,
               initAuth, lastReauth, failedCall, failKind >>

opVars == << op, opPc, opResult, waited, opIssued, opRefreshes, polls, slept >>
pollVars == << offSince, offSeen, okOff >>

timeVars == << batch, elapsed >>

setupVars == << setupErr, hass >>

svcVars == << svcPc, svcName, svcData, svcArgs, svcNext, svcSent, svcFailed >>

flowVars == << entries, advert, flow >>

\* The variables of one set-up entry and its coordinator.
entryVars ==
  << entry, setupVars, timeVars, coordVars, refreshVars, deviceVars, histVars,
     opVars, pollVars, svcVars >>

vars == << entry, setupVars, timeVars, coordVars, refreshVars, deviceVars, histVars, opVars, pollVars,
           svcVars, flowVars >>

NoFields == [f \in FieldSet |-> None]

NoError == [call |-> "none", kind |-> "none"]

\* A service call without data, as reboot, reset_hdmi and reset_hid get.
NoData ==
  [button_type |-> "omitted",
   duration |-> [given |-> FALSE, kind |-> "int", v |-> 0]]

\* No arguments: the handler has not read call.data.
NoArgs == [gpio |-> "none", duration |-> 0]

\* ConfigFlow.__init__ (config_flow.py 118-124), and the record the model
\* keeps of the flow: the step whose form is shown, how the flow began, how
\* the probe of the discovery ended, the flow's result, the errors of the
\* user form, whether the user form has been
\* shown, and whether validate_input has been called with a password that
\* no form had submitted.
NoFlow ==
  [step |-> "none", source |-> "none", host |-> 0, unique_id |-> << >>,
   default_auth_successful |-> FALSE, probe |-> "none", result |-> "none",
   errors |-> "none",
   shown |-> FALSE, unentered |-> FALSE]

\* What the device answers to a read call.
DeviceReply(call) ==
  [call |-> call, gen |-> gen, pwr |-> IF call = "get_gpio" THEN devPwr ELSE FALSE]

Init ==
  /\ entry = "new"
  /\ setupErr = NoError
  /\ hass = {}
  /\ token = FALSE
  /\ fields = NoFields
  /\ data = NoFields
  /\ rpc = "idle"
  /\ batch = 0
  /\ elapsed = 0
  /\ idx = 1
  /\ depth = 0
  /\ caller = "none"
  /\ outcome = "none"
  /\ gen = 1
  /\ devPwr \in BOOLEAN
  /\ startFields = NoFields
  /\ gpioReply = "none"
  /\ passes = 0
  /\ reauths = 0
  /\ reads = 0
  /\ sinceAuth = 0
  /\ initAuth = "none"
  /\ lastReauth = "none"
  /\ failedCall = "none"
  /\ failKind = "none"
  /\ op = "none"
  /\ opPc = "none"
  /\ opResult = "none"
  /\ waited = 0
  /\ opIssued = 0
  /\ opRefreshes = 0
  /\ polls = 0
  /\ slept = 0
  /\ offSince = 0
  /\ offSeen = FALSE
  /\ okOff = FALSE
  /\ svcPc = "none"
  /\ svcName = "none"
  /\ svcData = NoData
  /\ svcArgs = NoArgs
  /\ svcNext = 1
  /\ svcSent = {}
  /\ entries = << >>
  /\ advert = [d \in 1..NumDevices |-> "unknown"]
  /\ flow = NoFlow
  /\ svcFailed = {}

(***************************************************************************)
(* Results the code distinguishes for a client call.                       *)
(*   ok      the call returns                                              *)
(*   auth    NanoKVMAuthenticationFailure                                  *)
(*   comm    another NanoKVMError or an aiohttp.ClientError                *)
(*   timeout asyncio.TimeoutError: the 10 s of async_timeout.timeout ran   *)
(*           out while the call was awaited (read calls only: the two      *)
(*           authenticate calls are awaited outside the timeout block)     *)
(***************************************************************************)
AuthResults == {"ok", "auth", "comm"}

ReadResults == {"ok", "auth", "comm", "timeout"}

(***************************************************************************)
(* NanoKVMDataUpdateCoordinator._async_update_data                         *)
(***************************************************************************)

StoreInNext(fs, i, reply) == [fs EXCEPT ![FieldNames[(i % NumReads) + 1]] = reply]

\* self.<attribute> = await self.client.<read call>(): the i-th assignment.
StoreReply(fs, i, reply) == [fs EXCEPT ![FieldNames[i]] = reply]

ReturnedWithoutLast(fs) ==
  [f \in FieldSet |-> IF f = "cdrom_status" THEN None ELSE fs[f]]

\* The dict the method returns, built from the attributes just assigned.
ReturnedDict(fs) == [f \in FieldSet |-> fs[f]]

RaisedAsSuccess(result, d) == "success"

\* What leaves the outermost call when the innermost call ends with
\* `result`: a returned dict is passed up by every `return await
\* self._async_update_data()`, while an UpdateFailed raised by the inner call
\* is caught by `except Exception as auth_err` of each enclosing call and
\* raised again as UpdateFailed("Authentication failed: ...").
Raised(result, d) ==
  IF d > 0 /\ result # "success" THEN "auth_failed" ELSE result

\* First statements of _async_update_data, up to its first await: with a
\* token the read calls start at once, without one authenticate is called.
FirstAwait(tok) == IF tok THEN "read" ELSE "auth"

\* The host starts a refresh on behalf of `who`.
UpdateBegin(who) ==
  /\ rpc = "idle"
  /\ caller = "none"
  /\ caller' = who
  /\ rpc' = FirstAwait(token)
  /\ batch' = 0
  /\ elapsed' = 0
  /\ idx' = 1
  /\ depth' = 0
  /\ outcome' = "none"
  /\ startFields' = fields
  /\ gpioReply' = "none"
  /\ passes' = IF token THEN 1 ELSE 0
  /\ reauths' = 0
  /\ reads' = 0
  /\ sinceAuth' = 0
  /\ initAuth' = "none"
  /\ lastReauth' = "none"
  /\ failedCall' = "none"
  /\ failKind' = "none"
  /\ UNCHANGED << coordVars, deviceVars >>

\* The host resumes the caller `who` of the refresh that ended; the record
\* of the invocation is dropped.
UpdateResume(who) ==
  /\ rpc = "ended"
  /\ caller = who
  /\ rpc' = "idle"
  /\ caller' = "none"
  /\ batch' = 0
  /\ elapsed' = 0
  /\ idx' = 1
  /\ depth' = 0
  /\ outcome' = "none"
  /\ startFields' = NoFields
  /\ gpioReply' = "none"
  /\ passes' = 0
  /\ reauths' = 0
  /\ reads' = 0
  /\ sinceAuth' = 0
  /\ initAuth' = "none"
  /\ lastReauth' = "none"
  /\ failedCall' = "none"
  /\ failKind' = "none"

IsAnyError(r) == r # "ok"

\* Line 299: isinstance(err, NanoKVMAuthenticationFailure), the test that
\* sends a caught error to the re-authentication.
IsAuthError(r) == r = "auth"

\* Line 267: await self.client.authenticate(...) when there is no token.
UpdateAuthenticate ==
  /\ rpc = "auth"
  /\ \E r \in AuthResults :
       /\ initAuth' = r
       /\ \/ /\ r = "ok"
             /\ token' = TRUE
             /\ rpc' = "read"
             /\ idx' = 1
             /\ passes' = Bump(passes)
             /\ UNCHANGED << caller, outcome, failedCall, failKind >>
          \/ /\ r # "ok"
             /\ IsAuthError(r)
             /\ rpc' = "reauth"
             /\ failedCall' = "authenticate"
             /\ failKind' = r
             /\ UNCHANGED << token, idx, passes, caller, outcome >>
          \/ /\ r # "ok"
             /\ ~IsAuthError(r)
             /\ rpc' = "ended"
             /\ outcome' = Raised("comm_failed", depth)
             /\ failedCall' = "authenticate"
             /\ failKind' = r
             /\ UNCHANGED << token, idx, passes, caller >>
  /\ UNCHANGED << entry, fields, data, depth, deviceVars, startFields, gpioReply,
                  reauths, reads, sinceAuth, lastReauth, opVars, pollVars >>
  /\ UNCHANGED svcVars
  /\ UNCHANGED setupVars
  /\ UNCHANGED timeVars
  /\ UNCHANGED flowVars

\* Record of the polls of the power switch's turn_off (a poll is a refresh
\* requested by line 174 of switch.py): an answer off of get_gpio in a poll
\* starts the run of off answers, an answer on in any refresh ends it.
OffSinceAfter(call) ==
  IF call # "get_gpio" \/ op # "power_off"
    THEN offSince
    ELSE IF devPwr
           THEN 0
           ELSE IF offSince = 0 /\ opPc = "poll_wait" /\ caller = "op"
                  THEN polls
                  ELSE offSince

\* The time the invocation has waited after `d` more units.
TimeAfter(d) == Min(elapsed + d, TimeCap)

\* Record of the answers off of get_gpio while turn_off runs.
OffSeenAfter(call) ==
  offSeen \/ (call = "get_gpio" /\ op = "power_off" /\ ~devPwr)

\* Lines 271-296: the idx-th read call of the pass and, after the last one,
\* the return of the dict, which the host stores in coordinator.data.
UpdateRead ==
  /\ rpc = "read"
  /\ reads' = Bump(reads)
  /\ \E r \in ReadResults :
       \/ /\ r = "ok"
          /\ batch < BATCH_TIMEOUT
          /\ batch' = IF idx = NumReads THEN 0 ELSE batch
          /\ UNCHANGED elapsed
          /\ fields' = StoreReply(fields, idx, DeviceReply(ReadCalls[idx]))
          /\ gpioReply' = IF ReadCalls[idx] = "get_gpio"
                            THEN (IF devPwr THEN "on" ELSE "off")
                            ELSE gpioReply
          /\ sinceAuth' = IF idx = NumReads THEN 0 ELSE sinceAuth + 1
          /\ offSince' = OffSinceAfter(ReadCalls[idx])
          /\ offSeen' = OffSeenAfter(ReadCalls[idx])
          /\ okOff' = (okOff \/ (/\ op = "power_off"
                                 /\ idx = NumReads
                                 /\ gpioReply' = "off"))
          /\ IF idx = NumReads
               THEN /\ rpc' = "ended"
                    /\ outcome' = Raised("success", depth)
                    /\ data' = ReturnedDict(fields')
                    /\ idx' = 1
               ELSE /\ rpc' = "read"
                    /\ idx' = idx + 1
                    /\ UNCHANGED << outcome, data >>
          /\ UNCHANGED << failedCall, failKind >>
       \/ /\ r # "ok"
          /\ IsAuthError(r)
          /\ batch < BATCH_TIMEOUT
          /\ batch' = 0
          /\ UNCHANGED elapsed
          /\ rpc' = "reauth"
          /\ failedCall' = "read"
          /\ failKind' = r
          /\ idx' = 1
          /\ sinceAuth' = 0
          /\ UNCHANGED << fields, data, gpioReply, outcome, pollVars >>
       \/ /\ r # "ok"
          /\ ~IsAuthError(r)
          /\ r = "comm" => batch < BATCH_TIMEOUT
          /\ batch' = 0
          /\ elapsed' = IF r = "timeout" THEN TimeAfter(BATCH_TIMEOUT - batch)
                                          ELSE elapsed
          /\ rpc' = "ended"
          /\ outcome' = Raised("comm_failed", depth)
          /\ failedCall' = "read"
          /\ failKind' = r
          /\ idx' = 1
          /\ sinceAuth' = 0
          /\ UNCHANGED << fields, data, gpioReply, pollVars >>
  /\ UNCHANGED << entry, token, depth, caller, deviceVars, startFields, passes,
                  reauths, initAuth, lastReauth, opVars >>
  /\ UNCHANGED svcVars
  /\ UNCHANGED setupVars
  /\ UNCHANGED flowVars

RetryFromSecond == Min(2, NumReads)

\* The read call with which the recursive call `return await
\* self._async_update_data()` starts: the first one.
RetryStart == 1

ReauthAsCommunication == "comm_failed"

\* How a failed re-authentication is reported (line 305).
ReauthFailure == "auth_failed"

\* Lines 299-305: the authentication error of a pass is answered by
\* authenticate and, when that returns, by a recursive call.
UpdateReauthenticate ==
  /\ rpc = "reauth"
  /\ reauths' = Bump(reauths)
  /\ \E r \in AuthResults :
       \/ /\ r = "ok"
          /\ token' = TRUE
          /\ lastReauth' = "ok"
          /\ depth' = Bump(depth)
          /\ rpc' = FirstAwait(token')
          /\ idx' = RetryStart
          /\ passes' = Bump(passes)
          /\ sinceAuth' = 0
          /\ failedCall' = "none"
          /\ failKind' = "none"
          /\ UNCHANGED outcome
       \/ /\ r # "ok"
          /\ lastReauth' = "failed"
          /\ rpc' = "ended"
          /\ outcome' = Raised(ReauthFailure, depth)
          /\ failedCall' = "reauthenticate"
          /\ failKind' = r
          /\ UNCHANGED << token, depth, idx, passes, sinceAuth >>
  /\ UNCHANGED << entry, fields, data, caller, deviceVars, startFields, gpioReply,
                  reads, initAuth, opVars, pollVars >>
  /\ UNCHANGED svcVars
  /\ UNCHANGED setupVars
  /\ UNCHANGED timeVars
  /\ UNCHANGED flowVars

(***************************************************************************)
(* async_setup_entry                                                       *)
(***************************************************************************)

SetupAlwaysRetries(r) == "not_ready"

\* Lines 105-110: NanoKVMAuthenticationFailure makes set-up return False,
\* aiohttp.ClientError or another NanoKVMError raise ConfigEntryNotReady.
SetupFailure(r) == IF r = "auth" THEN "setup_failed" ELSE "not_ready"

\* Lines 99-110: a new client authenticates; an authentication failure makes
\* set-up return False, another error raises ConfigEntryNotReady and the
\* host sets the entry up again later.
SetupAuthenticate ==
  /\ entry \in {"new", "not_ready"}
  /\ rpc = "idle"
  /\ caller = "none"
  /\ \E r \in AuthResults :
       /\ token' = (r = "ok")
       /\ entry' = IF r = "ok" THEN "setup_info" ELSE SetupFailure(r)
       /\ setupErr' = IF r = "ok" THEN NoError
                                  ELSE [call |-> "authenticate", kind |-> r]
  /\ UNCHANGED hass
  /\ fields' = NoFields
  /\ data' = NoFields
  /\ UNCHANGED << refreshVars, deviceVars, histVars, opVars, pollVars >>
  /\ UNCHANGED svcVars
  /\ UNCHANGED timeVars
  /\ UNCHANGED flowVars

\* Lines 104-118 and 231-253: get_info, then the coordinator is constructed
\* with device_info set and every other attribute None.
SetupGetInfo ==
  /\ entry = "setup_info"
  /\ \E r \in AuthResults :
       /\ entry' = IF r = "ok" THEN "first_refresh" ELSE SetupFailure(r)
       /\ setupErr' = IF r = "ok" THEN NoError
                                  ELSE [call |-> "get_info", kind |-> r]
       /\ fields' = IF r = "ok"
                      THEN [NoFields EXCEPT !["device_info"] = DeviceReply("get_info")]
                      ELSE NoFields
  /\ UNCHANGED << token, data, refreshVars, deviceVars, histVars, opVars, pollVars >>
  /\ UNCHANGED svcVars
  /\ UNCHANGED hass
  /\ UNCHANGED timeVars
  /\ UNCHANGED flowVars

\* Line 120: await coordinator.async_config_entry_first_refresh().
SetupFirstRefresh ==
  /\ entry = "first_refresh"
  /\ UpdateBegin("first")
  /\ entry' = "first_wait"
  /\ UNCHANGED << opVars, pollVars >>
  /\ UNCHANGED svcVars
  /\ UNCHANGED setupVars
  /\ UNCHANGED flowVars

\* Lines 120-216: a failed first refresh raises ConfigEntryNotReady; after a
\* successful one the coordinator is stored in hass.data, the platforms
\* create their entities and the services are registered.
SetupFinish ==
  /\ entry = "first_wait"
  /\ UpdateResume("first")
  /\ entry' = IF outcome = "success" THEN "loaded" ELSE "not_ready"
  /\ hass' = IF outcome = "success"
               THEN {"coordinator", "platforms", "services"}
               ELSE hass
  /\ UNCHANGED setupErr
  /\ UNCHANGED << coordVars, deviceVars, opVars, pollVars >>
  /\ UNCHANGED svcVars
  /\ UNCHANGED flowVars

UnloadedAlways(ok, h) == h \ {"coordinator", "platforms"}

\* Lines 221-225: what hass holds after async_unload_platforms returned
\* `ok`: a successful unload removes the entities and pops the coordinator
\* from hass.data; a failed one pops nothing.  The services stay registered
\* either way.
Unloaded(ok, h) == IF ok THEN h \ {"coordinator", "platforms"} ELSE h

\* async_unload_entry (lines 219-225), called by the host for a loaded
\* entry between two refreshes.
UnloadEntry ==
  /\ entry = "loaded"
  /\ rpc = "idle"
  /\ caller = "none"
  /\ op = "none"
  /\ svcPc = "none"
  /\ \E unload_ok \in BOOLEAN :
       /\ entry' = IF unload_ok THEN "unloaded" ELSE "failed_unload"
       /\ hass' = Unloaded(unload_ok, hass)
  /\ UNCHANGED << setupErr, coordVars, refreshVars, deviceVars, histVars, opVars,
                  pollVars, svcVars, timeVars >>
  /\ UNCHANGED flowVars

(***************************************************************************)
(* The host's scheduled refresh (update_interval, line 259).               *)
(***************************************************************************)
Tick ==
  /\ entry = "loaded"
  /\ UpdateBegin("tick")
  /\ UNCHANGED << entry, opVars, pollVars >>
  /\ UNCHANGED svcVars
  /\ UNCHANGED setupVars
  /\ UNCHANGED flowVars

\* The scheduled refresh has ended: the host notes the result.
TickDone ==
  /\ UpdateResume("tick")
  /\ UNCHANGED << entry, coordVars, deviceVars, opVars, pollVars >>
  /\ UNCHANGED svcVars
  /\ UNCHANGED setupVars
  /\ UNCHANGED flowVars

(***************************************************************************)
(* The environment: the device and the client library.                     *)
(***************************************************************************)

\* The device's state changes between two refresh cycles.
DeviceChange ==
  /\ rpc = "idle"
  /\ gen < MaxGen
  /\ gen' = gen + 1
  /\ UNCHANGED << entry, coordVars, refreshVars, devPwr, histVars, opVars, pollVars >>
  /\ UNCHANGED svcVars
  /\ UNCHANGED setupVars
  /\ UNCHANGED timeVars
  /\ UNCHANGED flowVars

\* A unit of time passes while the refresh awaits a device call.  The
\* timeout of the batch counts the time of the read calls; when it has run
\* out, the awaited read call does not return: asyncio.TimeoutError is
\* raised in its place.  A read call that raises it before time has passed
\* stands for all the remaining time passing at once.
TimePasses ==
  /\ rpc \in {"auth", "read", "reauth"}
  /\ rpc = "read" => batch < BATCH_TIMEOUT
  /\ elapsed < TimeCap
  /\ elapsed' = TimeAfter(1)
  /\ batch' = IF rpc = "read" THEN batch + 1 ELSE batch
  /\ UNCHANGED << entry, setupVars, coordVars, refreshVars, deviceVars, histVars,
                  opVars, pollVars, svcVars >>
  /\ UNCHANGED flowVars

\* The power LED line changes.
DevicePower ==
  /\ devPwr' = ~devPwr
  /\ UNCHANGED << entry, coordVars, refreshVars, gen, histVars, opVars, pollVars >>
  /\ UNCHANGED svcVars
  /\ UNCHANGED setupVars
  /\ UNCHANGED timeVars
  /\ UNCHANGED flowVars

\* The client no longer holds a token (the condition line 266 tests).
TokenLost ==
  /\ entry = "loaded"
  /\ rpc = "idle"
  /\ token
  /\ token' = FALSE
  /\ UNCHANGED << entry, fields, data, refreshVars, deviceVars, histVars, opVars, pollVars >>
  /\ UNCHANGED svcVars
  /\ UNCHANGED setupVars
  /\ UNCHANGED timeVars
  /\ UNCHANGED flowVars

(***************************************************************************)
(* Operations: entity methods (switch.py, button.py) and service handlers  *)
(* (__init__.py).  One operation runs at a time; the scheduled refresh     *)
(* runs beside it.                                                         *)
(***************************************************************************)
CallResults == {"ok", "error"}

SimpleOps == {"switch_on", "switch_off", "button"}

Services ==
  {"push_button", "paste_text", "reboot", "reset_hdmi", "reset_hid", "wake_on_lan"}

OpCallSwallowed(kind, r, next) ==
  /\ entry = "loaded"
  /\ op = "none"
  /\ op' = kind
  /\ opIssued' = IF r = "ok" THEN 1 ELSE 0
  /\ opPc' = next
  /\ opResult' = IF r = "ok" THEN "none" ELSE "error"
  /\ UNCHANGED << opRefreshes, polls, slept, waited >>

\* An operation starts with its control call; `r` is the call's result and
\* `next` the position after a call that returned.  A control call that
\* raises ends an entity method with the exception.
OpCall(kind, r, next) ==
  /\ entry = "loaded"
  /\ op = "none"
  /\ op' = kind
  /\ opIssued' = IF r = "ok" THEN 1 ELSE 0
  /\ opPc' = IF r = "ok" THEN next ELSE "done"
  /\ opResult' = IF r = "ok" THEN "none" ELSE "error"
  /\ UNCHANGED << opRefreshes, polls, slept, waited >>

\* The operation has returned or raised.
OpReturn ==
  /\ opPc = "done"
  /\ op' = "none"
  /\ opPc' = "none"
  /\ opResult' = "none"
  /\ waited' = 0
  /\ opIssued' = 0
  /\ opRefreshes' = 0
  /\ polls' = 0
  /\ slept' = 0
  /\ offSince' = 0
  /\ offSeen' = FALSE
  /\ okOff' = FALSE
  /\ UNCHANGED << entry, coordVars, refreshVars, deviceVars, histVars >>
  /\ UNCHANGED svcVars
  /\ UNCHANGED setupVars
  /\ UNCHANGED timeVars
  /\ UNCHANGED flowVars

\* NanoKVMSwitch.async_turn_on / async_turn_off (switch.py 144-152) and
\* NanoKVMButton.async_press (button.py 114-117): the control call ...
EntityCall ==
  /\ \E kind \in SimpleOps, r \in CallResults : OpCall(kind, r, "refresh")
  /\ UNCHANGED << entry, coordVars, refreshVars, deviceVars, histVars, pollVars >>
  /\ UNCHANGED svcVars
  /\ UNCHANGED setupVars
  /\ UNCHANGED timeVars
  /\ UNCHANGED flowVars

\* ... then await self.coordinator.async_request_refresh().
EntityRefresh ==
  /\ opPc = "refresh"
  /\ UpdateBegin("op")
  /\ opPc' = "wait"
  /\ opRefreshes' = Bump(opRefreshes)
  /\ UNCHANGED << entry, op, opResult, waited, opIssued, polls, slept, pollVars >>
  /\ UNCHANGED svcVars
  /\ UNCHANGED setupVars
  /\ UNCHANGED flowVars

EntityDone ==
  /\ opPc = "wait"
  /\ UpdateResume("op")
  /\ opPc' = "done"
  /\ opResult' = "ok"
  /\ UNCHANGED << entry, coordVars, deviceVars, op, waited, opIssued, opRefreshes,
                  polls, slept, pollVars >>
  /\ UNCHANGED svcVars
  /\ UNCHANGED setupVars
  /\ UNCHANGED flowVars

\* handle_push_button .. handle_wake_on_lan (__init__.py 128-195): the
\* client call on the coordinator of hass.data; an exception is logged and
\* the handler returns.  No handler does anything after its client call.
ServiceCall ==
  /\ entry = "loaded"
  /\ op = "none"
  /\ \E s \in Services, r \in CallResults :
       /\ op' = s
       /\ opIssued' = IF r = "ok" THEN 1 ELSE 0
       /\ opPc' = "done"
       /\ opResult' = "ok"
  /\ UNCHANGED << entry, coordVars, refreshVars, deviceVars, histVars, waited,
                  opRefreshes, polls, slept, pollVars >>
  /\ UNCHANGED svcVars
  /\ UNCHANGED setupVars
  /\ UNCHANGED timeVars
  /\ UNCHANGED flowVars

\* NanoKVMPowerSwitch.async_turn_on (switch.py 158-162): push_button ...
PowerOnPush ==
  /\ \E r \in CallResults : OpCall("power_on", r, "on_sleep")
  /\ UNCHANGED << entry, coordVars, refreshVars, deviceVars, histVars, pollVars >>
  /\ UNCHANGED svcVars
  /\ UNCHANGED setupVars
  /\ UNCHANGED timeVars
  /\ UNCHANGED flowVars

\* ... await asyncio.sleep(1), then the refresh request of EntityRefresh.
PowerOnSleep ==
  /\ opPc = "on_sleep"
  /\ opPc' = "refresh"
  /\ UNCHANGED << entry, coordVars, refreshVars, deviceVars, histVars, op, opResult,
                  waited, opIssued, opRefreshes, polls, slept, pollVars >>
  /\ UNCHANGED svcVars
  /\ UNCHANGED setupVars
  /\ UNCHANGED timeVars
  /\ UNCHANGED flowVars

IsOn(fs) == fs["gpio_info"] # None /\ fs["gpio_info"].pwr

\* The test of line 175: self.coordinator.gpio_info and not gpio_info.pwr.
IsOff(fs) == fs["gpio_info"] # None /\ ~fs["gpio_info"].pwr

LoopForever(w) == w <= SHUTDOWN_TIMEOUT

\* The loop condition of line 173.
LoopContinues(w) == w < SHUTDOWN_TIMEOUT

\* NanoKVMPowerSwitch.async_turn_off (switch.py 164-183): push_button and
\* start_time = loop.time() ...
PowerOffPush ==
  /\ \E r \in CallResults : OpCall("power_off", r, "loop")
  /\ offSeen' = IsOff(fields)
  /\ UNCHANGED << entry, coordVars, refreshVars, deviceVars, histVars, offSince,
                  okOff >>
  /\ UNCHANGED svcVars
  /\ UNCHANGED setupVars
  /\ UNCHANGED timeVars
  /\ UNCHANGED flowVars

\* ... lines 173-174: while the timeout has not run out, request a refresh
PowerOffPoll ==
  /\ op = "power_off"
  /\ opPc = "loop"
  /\ LoopContinues(waited)
  /\ polls < MaxPolls
  /\ UpdateBegin("op")
  /\ opPc' = "poll_wait"
  /\ polls' = polls + 1
  /\ opRefreshes' = Bump(opRefreshes)
  /\ UNCHANGED << entry, op, opResult, waited, opIssued, slept, pollVars >>
  /\ UNCHANGED svcVars
  /\ UNCHANGED setupVars
  /\ UNCHANGED flowVars

\* ... lines 175-179: the refresh has ended; off leads to the last refresh
\* and the return, anything else to the sleep
PowerOffCheck ==
  /\ op = "power_off"
  /\ opPc = "poll_wait"
  /\ UpdateResume("op")
  /\ opPc' = IF IsOff(fields) THEN "final" ELSE "sleep"
  /\ UNCHANGED << entry, coordVars, deviceVars, op, opResult, waited, opIssued,
                  opRefreshes, polls, slept, pollVars >>
  /\ UNCHANGED svcVars
  /\ UNCHANGED setupVars
  /\ UNCHANGED flowVars

\* ... line 177
PowerOffFinal ==
  /\ op = "power_off"
  /\ opPc = "final"
  /\ UpdateBegin("op")
  /\ opPc' = "final_wait"
  /\ opRefreshes' = Bump(opRefreshes)
  /\ UNCHANGED << entry, op, opResult, waited, opIssued, polls, slept, pollVars >>
  /\ UNCHANGED svcVars
  /\ UNCHANGED setupVars
  /\ UNCHANGED flowVars

\* ... line 178
PowerOffConfirmed ==
  /\ op = "power_off"
  /\ opPc = "final_wait"
  /\ UpdateResume("op")
  /\ opPc' = "done"
  /\ opResult' = "confirmed"
  /\ UNCHANGED << entry, coordVars, deviceVars, op, waited, opIssued, opRefreshes,
                  polls, slept, pollVars >>
  /\ UNCHANGED svcVars
  /\ UNCHANGED setupVars
  /\ UNCHANGED flowVars

\* ... line 179: await asyncio.sleep(SHUTDOWN_POLL_INTERVAL); the clock the
\* loop condition reads has advanced by the interval or more
PowerOffSleep ==
  /\ op = "power_off"
  /\ opPc = "sleep"
  /\ \E late \in {0, Lag} :
       waited' = Min(waited + SHUTDOWN_POLL_INTERVAL + late, SHUTDOWN_TIMEOUT)
  /\ slept' = slept + SHUTDOWN_POLL_INTERVAL
  /\ opPc' = "loop"
  /\ UNCHANGED << entry, coordVars, refreshVars, deviceVars, histVars, op, opResult,
                  opIssued, opRefreshes, polls, pollVars >>
  /\ UNCHANGED svcVars
  /\ UNCHANGED setupVars
  /\ UNCHANGED timeVars
  /\ UNCHANGED flowVars

\* ... lines 173 and 182-183: the timeout has run out: a warning and a
\* refresh
PowerOffTimeout ==
  /\ op = "power_off"
  /\ opPc = "loop"
  /\ ~LoopContinues(waited)
  /\ UpdateBegin("op")
  /\ opPc' = "timeout_wait"
  /\ opRefreshes' = Bump(opRefreshes)
  /\ UNCHANGED << entry, op, opResult, waited, opIssued, polls, slept, pollVars >>
  /\ UNCHANGED svcVars
  /\ UNCHANGED setupVars
  /\ UNCHANGED flowVars

PowerOffUnconfirmed ==
  /\ op = "power_off"
  /\ opPc = "timeout_wait"
  /\ UpdateResume("op")
  /\ opPc' = "done"
  /\ opResult' = "not_confirmed"
  /\ UNCHANGED << entry, coordVars, deviceVars, op, waited, opIssued, opRefreshes,
                  polls, slept, pollVars >>
  /\ UNCHANGED svcVars
  /\ UNCHANGED setupVars
  /\ UNCHANGED flowVars

(***************************************************************************)
(* A service call of the domain: the host validates the call's data with   *)
(* the schema the service was registered with (lines 197-214) and, when    *)
(* the schema accepts them, calls the handler (lines 128-195).             *)
(***************************************************************************)
Devices == 1..NumDevices

ButtonTypes == {"power", "reset"}

ButtonTypeInputs == ButtonTypes \cup {"other", "omitted"}

DurationValues ==
  {0 - MaxDuration, 0}
    \cup ((MinDuration - Margin)..(MinDuration + Margin))
    \cup ((MaxDuration - Margin)..(MaxDuration + Margin))

\* A duration as the caller gives it: omitted, an integer, a string of
\* digits (v is the number it denotes) or another string.
DurationInputs ==
  {[given |-> FALSE, kind |-> "int", v |-> 0],
   [given |-> TRUE, kind |-> "text", v |-> 0]}
    \cup {[given |-> TRUE, kind |-> k, v |-> d] :
             k \in {"int", "digits"}, d \in DurationValues}

\* vol.Coerce(int): int(value) raises for a string that is no number.
Coercible(x) == x.kind \in {"int", "digits"}

CoerceInt(x) == x.v

InRangeExclusive(d) == MinDuration < d /\ d < MaxDuration

\* vol.Range(min=100, max=5000)
InRange(d) == MinDuration <= d /\ d <= MaxDuration

\* vol.Required(ATTR_BUTTON_TYPE): vol.In([BUTTON_TYPE_POWER, BUTTON_TYPE_RESET])
ValidType(t) == t \in ButtonTypes

\* vol.Optional(ATTR_DURATION, default=100): vol.All(Coerce(int), Range(...))
ValidDuration(x) == ~x.given \/ (Coercible(x) /\ InRange(CoerceInt(x)))

\* PUSH_BUTTON_SCHEMA; the data of the other services are not modelled.
SchemaAccepts(name, d) ==
  name = "push_button" => (ValidType(d.button_type) /\ ValidDuration(d.duration))

\* The data the schema returns: the default stands for an omitted duration.
Validated(d) ==
  [button_type |-> d.button_type,
   duration |-> IF d.duration.given THEN CoerceInt(d.duration) ELSE DefaultDuration]

\* Lines 130-133: the arguments handle_push_button passes to push_button.
HandlerArgs(name, d) ==
  IF name = "push_button"
    THEN [gpio |-> IF d.button_type = "power" THEN "POWER" ELSE "RESET",
          duration |-> d.duration]
    ELSE NoArgs

\* A caller calls a service of the domain; the services exist once set-up
\* has registered them.
ServiceRequest ==
  /\ entry = "loaded"
  /\ svcPc = "none"
  /\ \E name \in Services, t \in ButtonTypeInputs, x \in DurationInputs :
       /\ svcName' = name
       /\ svcData' = IF name = "push_button"
                       THEN [button_type |-> t, duration |-> x]
                       ELSE NoData
  /\ svcPc' = "schema"
  /\ UNCHANGED << svcArgs, svcNext, svcSent, svcFailed >>
  /\ UNCHANGED << entry, coordVars, refreshVars, deviceVars, histVars, opVars, pollVars >>
  /\ UNCHANGED setupVars
  /\ UNCHANGED timeVars
  /\ UNCHANGED flowVars

\* The host applies the schema: data it rejects raise vol.Invalid to the
\* caller and the handler is not called.
ServiceValidate ==
  /\ svcPc = "schema"
  /\ IF SchemaAccepts(svcName, svcData)
       THEN /\ svcPc' = "handler"
            /\ svcArgs' = HandlerArgs(svcName, Validated(svcData))
       ELSE /\ svcPc' = "rejected"
            /\ UNCHANGED svcArgs
  /\ UNCHANGED << svcName, svcData, svcNext, svcSent, svcFailed >>
  /\ UNCHANGED << entry, coordVars, refreshVars, deviceVars, histVars, opVars, pollVars >>
  /\ UNCHANGED setupVars
  /\ UNCHANGED timeVars
  /\ UNCHANGED flowVars

CatchesNothing(r) == FALSE

\* `except Exception as err` around the client call: what the client raises
\* is caught.
HandlerCatches(r) == r = "error"

\* One iteration of `for entry_id, coordinator in hass.data[DOMAIN].items()`:
\* the client call, whose exception is caught and logged.
ServiceDispatch ==
  /\ svcPc = "handler"
  /\ svcSent' = svcSent \cup {svcNext}
  /\ \E r \in CallResults :
       /\ svcFailed' = IF r = "error" THEN svcFailed \cup {svcNext} ELSE svcFailed
       /\ IF r = "error" /\ ~HandlerCatches(r)
            THEN svcPc' = "raised" /\ svcNext' = 1
            ELSE IF svcNext = NumDevices
                   THEN svcPc' = "returned" /\ svcNext' = 1
                   ELSE svcPc' = "handler" /\ svcNext' = svcNext + 1
  /\ UNCHANGED << svcName, svcData, svcArgs >>
  /\ UNCHANGED << entry, coordVars, refreshVars, deviceVars, histVars, opVars, pollVars >>
  /\ UNCHANGED setupVars
  /\ UNCHANGED timeVars
  /\ UNCHANGED flowVars

\* The service call is over: the handler returned, or the caller got
\* vol.Invalid.
ServiceEnd ==
  /\ svcPc \in {"returned", "rejected", "raised"}
  /\ svcPc' = "none"
  /\ svcName' = "none"
  /\ svcData' = NoData
  /\ svcArgs' = NoArgs
  /\ svcNext' = 1
  /\ svcSent' = {}
  /\ svcFailed' = {}
  /\ UNCHANGED << entry, coordVars, refreshVars, deviceVars, histVars, opVars, pollVars >>
  /\ UNCHANGED setupVars
  /\ UNCHANGED timeVars
  /\ UNCHANGED flowVars

(***************************************************************************)
(* The config flow (config_flow.py).  One flow runs at a time.  A device   *)
(* is known by its device_key (get_info) and by the "id" of its zeroconf   *)
(* record, or the record's name when it has no "id"; whether the two are   *)
(* the same string is the device's matter and is settled, per device, at   *)
(* its first discovery.                                                    *)
(***************************************************************************)
DEFAULT_USERNAME == "admin"

DEFAULT_PASSWORD == "admin"

DefaultCredentials == [username |-> DEFAULT_USERNAME, password |-> DEFAULT_PASSWORD]

\* The account each device accepts: the first one still has the default
\* password, the others have had it changed.
DeviceCredentials(d) ==
  IF d = 1 THEN DefaultCredentials
           ELSE [username |-> DEFAULT_USERNAME, password |-> "secret"]

\* What a user may type into the form of step "user" (lines 148-154).
CredentialInputs ==
  [username : {DEFAULT_USERNAME, "root"}, password : {DEFAULT_PASSWORD, "secret", ""}]

\* device_info.device_key of the device (lines 42, 108).
DeviceKey(d) == << "device_key", d >>

\* Line 208: discovery_info.properties.get("id", name).
ZeroconfId(d, kind) == IF kind = "device_key" THEN DeviceKey(d) ELSE << "zeroconf", d >>

\* validate_input (lines 77-110): the results it can have for the device
\* and the credentials: the dict, InvalidAuth, CannotConnect or another
\* exception.  authenticate accepts only the device's account.
ValidateInput(d, c) ==
  {"invalid_auth", "cannot_connect", "unknown"}
    \cup (IF c = DeviceCredentials(d) THEN {"ok"} ELSE {})

\* _async_get_nanokvm_device_info (lines 27-66): how the probe can end: with
\* a result ("ok"), or with None, because the default account is rejected
\* ("auth") or because the device does not answer ("comm").
DeviceInfoProbe(d) ==
  {"comm"} \cup (IF DeviceCredentials(d) = DefaultCredentials THEN {"ok"} ELSE {"auth"})

\* _abort_if_unique_id_configured (lines 126-139).
UniqueIdConfigured(uid) == \E i \in 1..Len(entries) : entries[i].unique_id = uid

\* The flow ends with an abort.
Aborted(f, reason) == [f EXCEPT !.step = "done", !.result = reason]

\* async_create_entry: the host stores an entry with the flow's unique_id
\* and the data given.
CreatedEntry(f, d, c, data_uid) ==
  [device |-> d, unique_id |-> f.unique_id, data_unique_id |-> data_uid,
   credentials |-> c, source |-> f.source]

\* async_step_user with user_input (lines 156-198): validate_input with
\* result `r`; an error shows the form again; otherwise the unique_id is
\* set, from the zeroconf id the input carries or from the device_key, the
\* flow aborts if an entry has it, and the entry is created.
StepUser(f, d, c, zc, r) ==
  IF r # "ok"
    THEN /\ flow' = [f EXCEPT !.step = "user", !.errors = r, !.shown = TRUE]
         /\ UNCHANGED entries
    ELSE LET uid == IF zc # << >> THEN zc ELSE DeviceKey(d)
             g == [f EXCEPT !.unique_id = uid, !.step = "done"]
         IN  IF UniqueIdConfigured(uid)
               THEN /\ flow' = Aborted(g, "already_configured")
                    /\ UNCHANGED entries
               ELSE /\ flow' = [g EXCEPT !.result = "create_entry"]
                    /\ entries' = Append(entries, CreatedEntry(g, d, c, uid))

\* The user starts a flow: async_step_user(None) shows the form.
UserStart ==
  /\ flow.step = "none"
  /\ flow' = [NoFlow EXCEPT !.step = "user", !.source = "user", !.shown = TRUE]
  /\ UNCHANGED << entries, advert, entryVars >>

\* The user submits the form of step "user" with a host and an account.
UserSubmit ==
  /\ flow.step = "user"
  /\ \E d \in Devices, c \in CredentialInputs :
       \E r \in ValidateInput(d, c) :
         StepUser([flow EXCEPT !.host = d], d, c, << >>, r)
  /\ UNCHANGED << advert, entryVars >>

\* The entry the loop of lines 235-262 stops at: the first one whose
\* unique_id, or whose data["unique_id"], is the zeroconf id; 0 if none.
FirstMatch(zc) ==
  LET hits == {i \in 1..Len(entries) :
                 entries[i].unique_id = zc \/ entries[i].data_unique_id = zc}
  IN  IF hits = {} THEN 0 ELSE CHOOSE i \in hits : \A j \in hits : i <= j

\* async_step_zeroconf (lines 200-292): the probe with the default account,
\* the unique_id, the check for an entry of the device, and the
\* confirmation form.
ZeroconfDiscovered ==
  /\ flow.step = "none"
  /\ \E d \in Devices :
       \E kind \in (IF advert[d] = "unknown" THEN {"device_key", "own"}
                                             ELSE {advert[d]}) :
         \E p \in DeviceInfoProbe(d) :
           LET zc == ZeroconfId(d, kind)
               result == p = "ok"
               f == [NoFlow EXCEPT !.source = "zeroconf", !.host = d,
                                   !.unique_id = zc, !.probe = p,
                                   !.default_auth_successful = result]
               i == FirstMatch(zc)
           IN  /\ advert' = [advert EXCEPT ![d] = kind]
               /\ IF result /\ i # 0
                    THEN /\ flow' = Aborted(f, "already_configured")
                         /\ entries' = [entries EXCEPT ![i].unique_id = zc]
                    ELSE /\ flow' = IF UniqueIdConfigured(zc)
                                      THEN Aborted(f, "already_configured")
                                      ELSE [f EXCEPT !.step = "zeroconf_confirm"]
                         /\ UNCHANGED entries
  /\ UNCHANGED entryVars

\* async_step_zeroconf_confirm with user_input (lines 298-336): the user
\* confirms the discovery.  After a successful probe the entry is created
\* with the default account once validate_input has returned; otherwise
\* async_step_user is called with the discovered host, the default user
\* name and no password, for which it puts in "" (lines 158-159).
ZeroconfConfirm ==
  /\ flow.step = "zeroconf_confirm"
  /\ LET d == flow.host
         f == [flow EXCEPT !.unentered = TRUE]
     IN  IF flow.default_auth_successful
           THEN \E r \in ValidateInput(d, DefaultCredentials) :
                  CASE r = "ok" ->
                         /\ flow' = [f EXCEPT !.step = "done", !.result = "create_entry"]
                         /\ entries' = Append(entries,
                                CreatedEntry(f, d, DefaultCredentials, f.unique_id))
                    [] r = "cannot_connect" ->
                         /\ flow' = Aborted(f, "cannot_connect")
                         /\ UNCHANGED entries
                    [] OTHER ->
                         /\ flow' = Aborted(f, "unknown")
                         /\ UNCHANGED entries
           ELSE LET c == [username |-> DEFAULT_USERNAME, password |-> ""]
                IN  \E r \in ValidateInput(d, c) :
                      StepUser(f, d, c, flow.unique_id, r)
  /\ UNCHANGED << advert, entryVars >>

\* The flow has ended; the next one can begin.
FlowEnd ==
  /\ flow.step = "done"
  /\ flow' = NoFlow
  /\ UNCHANGED << entries, advert, entryVars >>

FlowNext ==
  \/ UserStart
  \/ UserSubmit
  \/ ZeroconfDiscovered
  \/ ZeroconfConfirm
  \/ FlowEnd

FlowSpec == Init /\ [][FlowNext]_vars

UpdateStep == UpdateAuthenticate \/ UpdateRead \/ UpdateReauthenticate

Next ==
  \/ SetupAuthenticate
  \/ SetupGetInfo
  \/ SetupFirstRefresh
  \/ SetupFinish
  \/ Tick
  \/ TickDone
  \/ UpdateAuthenticate
  \/ UpdateRead
  \/ UpdateReauthenticate
  \/ DeviceChange
  \/ DevicePower
  \/ TokenLost
  \/ UnloadEntry

Spec == Init /\ [][Next]_vars

(***************************************************************************)
(* The integration with its operations, on a device whose values other     *)
(* than the power line stay as they are.                                   *)
(***************************************************************************)
OpNext ==
  \/ SetupAuthenticate
  \/ SetupGetInfo
  \/ SetupFirstRefresh
  \/ SetupFinish
  \/ Tick
  \/ TickDone
  \/ UpdateAuthenticate
  \/ UpdateRead
  \/ UpdateReauthenticate
  \/ DevicePower
  \/ TokenLost
  \/ EntityCall
  \/ EntityRefresh
  \/ EntityDone
  \/ ServiceCall
  \/ PowerOnPush
  \/ PowerOnSleep
  \/ PowerOffPush
  \/ PowerOffPoll
  \/ PowerOffCheck
  \/ PowerOffFinal
  \/ PowerOffConfirmed
  \/ PowerOffSleep
  \/ PowerOffTimeout
  \/ PowerOffUnconfirmed
  \/ OpReturn

OpSpec == Init /\ [][OpNext]_vars

(***************************************************************************)
(* The refresh cycle under the scheduling of the event loop: a coroutine   *)
(* whose awaited client call has a result is resumed.                      *)
(***************************************************************************)
FairSpec == Init /\ [][Next]_vars /\ WF_vars(UpdateStep)

(***************************************************************************)
(* Properties.                                                             *)
(***************************************************************************)
Running == rpc \in {"auth", "read", "reauth"}

Ended == rpc = "ended"

Failed == outcome \in {"comm_failed", "auth_failed"}

\* C1: whenever entities exist, the attributes they read are those of one
\* successful refresh: they equal the dict that refresh returned.
C1_FieldsOfOneCycle == entry = "loaded" => fields = data

\* C2: a refresh of a loaded entry ended by a communication error of a read
\* call has failed and has left every attribute as it was when the refresh
\* started.
C2_CommErrorKeepsFields ==
  (entry = "loaded" /\ Ended /\ failedCall = "read" /\ failKind = "comm")
    => (Failed /\ fields = startFields)

\* C3: in one refresh invocation the batch of read calls is started at most
\* twice and authenticate is called at most once in answer to a rejection.
C3_AtMostOneRetry == passes <= 2 /\ reauths <= 1

\* C4: a refresh invocation in which no read call returns (every
\* authenticate fails, or authenticate returns and every read call is
\* rejected) ends.
C4_BrokenCredentialEnds == Running ~> (Ended \/ sinceAuth > 0)

\* The value the i-th read call returns in the refresh that has just ended
\* (the device's values do not change while a refresh runs, except the
\* power line, whose answer gpioReply records).
ReplyOf(i) ==
  [call |-> ReadCalls[i], gen |-> gen,
   pwr |-> ReadCalls[i] = "get_gpio" /\ gpioReply = "on"]

AllCallsSucceeded == Ended /\ failedCall = "none" /\ reauths = 0

\* C5: a refresh whose every device call succeeded returns a dict in which
\* each of the 11 fields is the value its read call returned, and the
\* coordinator's attributes hold the same values.
C5_SuccessSnapshot ==
  AllCallsSucceeded =>
    /\ outcome = "success"
    /\ \A i \in 1..NumReads :
         /\ data[FieldNames[i]] = ReplyOf(i)
         /\ fields[FieldNames[i]] = ReplyOf(i)

\* The refresh replaced values of an older generation and read power on.
C5_Witness ==
  /\ AllCallsSucceeded
  /\ entry = "loaded"
  /\ gen = MaxGen
  /\ startFields["cdrom_status"].gen = 1
  /\ gpioReply = "on"

\* C6: a refresh ended by a transient error of a read call or by the timeout
\* of the batch reports a communication failure, in the first pass and in a
\* pass that follows a re-authentication.
C6_CommFailureClassified ==
  (Ended /\ failedCall = "read" /\ failKind \in {"comm", "timeout"})
    => outcome = "comm_failed"

\* C7: a refresh that started without a token and whose first authenticate
\* was rejected reports an authentication failure and has issued no read
\* call.
C7_InitialAuthRejected ==
  (Ended /\ initAuth = "auth") => (outcome = "auth_failed" /\ reads = 0)

OnlyReauthFailed == reauths = 1 /\ lastReauth = "failed"

\* C7, amended: ... when the authenticate call that answers the rejection
\* fails as well.
C7_InitialAuthRejectedTwice ==
  (Ended /\ initAuth = "auth" /\ OnlyReauthFailed)
    => (outcome = "auth_failed" /\ reads = 0)

C7_Witness == Ended /\ initAuth = "auth" /\ OnlyReauthFailed /\ failKind = "auth"

\* C8: after a failed re-authentication the refresh has ended with an
\* authentication failure (no call follows it); after a successful one the
\* read calls of the new pass are issued in order from the first, and a
\* success returns the values of that pass.
C8_ReauthOutcome ==
  /\ lastReauth = "failed" => (Ended /\ outcome = "auth_failed")
  /\ lastReauth = "ok" =>
       /\ rpc \in {"read", "reauth", "ended"}
       /\ rpc = "read" => idx = sinceAuth + 1
       /\ (Ended /\ outcome = "success") =>
            \A i \in 1..NumReads : fields[FieldNames[i]] = ReplyOf(i)

\* A read call was rejected, the re-authentication returned and the whole
\* batch was read again, replacing values of an older generation.
C8_Witness ==
  /\ lastReauth = "ok"
  /\ Ended
  /\ outcome = "success"
  /\ reauths = 1
  /\ initAuth = "none"
  /\ gen = MaxGen
  /\ startFields["device_info"].gen = 1

\* A read call was rejected and the re-authentication failed.
C8_WitnessFailed ==
  lastReauth = "failed" /\ initAuth = "none" /\ reauths = 1 /\ reads > 1

\* The operations that change the device's state: the switches, the
\* buttons and the service handlers the claim names.
MutatingOps ==
  SimpleOps \cup {"power_on", "power_off"}
            \cup {"push_button", "reboot", "reset_hdmi", "reset_hid"}

\* C9: an operation that changes the device's state and whose control call
\* returned has requested a refresh of the coordinator when it completes.
C9_ActionThenRefresh ==
  (opPc = "done" /\ op \in MutatingOps /\ opIssued >= 1) => opRefreshes >= 1

\* C10: in a turn_off whose polls read power off from poll offSince on, no
\* poll follows poll offSince, the routine has slept at most offSince poll
\* intervals, it neither sleeps again nor takes the timeout branch, and it
\* returns confirmed.
C10_ConfirmedAtFirstOffPoll ==
  (op = "power_off" /\ offSince # 0) =>
    /\ polls = offSince
    /\ slept <= offSince * SHUTDOWN_POLL_INTERVAL
    /\ opPc \in {"poll_wait", "final", "final_wait", "done"}
    /\ opPc = "done" => opResult = "confirmed"

\* Power read on in two polls, off in the third, and turn_off has returned.
C10_Witness ==
  /\ op = "power_off"
  /\ offSince = 3
  /\ opPc = "done"
  /\ opResult = "confirmed"
  /\ slept = 2 * SHUTDOWN_POLL_INTERVAL

\* C11: a turn_off whose button push returned raises nothing, whatever the
\* refreshes it awaits return; it polls only while less than the timeout
\* has passed and sleeps the poll interval after every poll, so that it
\* polls at most SHUTDOWN_TIMEOUT / SHUTDOWN_POLL_INTERVAL times; it takes
\* the timeout branch only once the timeout has passed; and when power was
\* never off it returns not confirmed, which the confirmed return is not.
C11_UnconfirmedAtTimeout ==
  (op = "power_off" /\ opIssued = 1) =>
    /\ opResult # "error"
    /\ opPc = "poll_wait" => waited < SHUTDOWN_TIMEOUT
    /\ polls * SHUTDOWN_POLL_INTERVAL <= slept + SHUTDOWN_POLL_INTERVAL
    /\ slept <= waited
    /\ (opPc = "timeout_wait" \/ opResult = "not_confirmed")
         => waited >= SHUTDOWN_TIMEOUT
    /\ (opPc = "done" /\ ~offSeen) => opResult = "not_confirmed"

\* Power never read off, three polls were made and the timeout passed.
C11_Witness ==
  /\ op = "power_off"
  /\ opPc = "done"
  /\ opResult = "not_confirmed"
  /\ ~offSeen
  /\ polls = 3
  /\ fields["gpio_info"].pwr

(***************************************************************************)
(* The integration with its services, on a device whose values stay as     *)
(* they are.                                                               *)
(***************************************************************************)
ServiceNext ==
  \/ SetupAuthenticate
  \/ SetupGetInfo
  \/ SetupFirstRefresh
  \/ SetupFinish
  \/ Tick
  \/ TickDone
  \/ UpdateAuthenticate
  \/ UpdateRead
  \/ UpdateReauthenticate
  \/ TokenLost
  \/ ServiceRequest
  \/ ServiceValidate
  \/ ServiceDispatch
  \/ ServiceEnd

ServiceSpec == Init /\ [][ServiceNext]_vars

\* The host has applied the schema to a call of push_button.
PushButtonDecided ==
  svcName = "push_button" /\ svcPc \in {"handler", "returned", "rejected"}

\* C12: a call of push_button whose duration is an integer d is accepted
\* exactly when its button type is power or reset and 100 <= d <= 5000; one
\* without duration is accepted exactly when its button type is one of the
\* two, and the handler then pushes for 100; a rejected call reaches no
\* device; an accepted one pushes the button named for the duration given.
C12_PushButtonSchema ==
  PushButtonDecided =>
    LET t == svcData.button_type
        x == svcData.duration
    IN /\ (x.given /\ x.kind = "int") =>
            ((svcPc # "rejected") <=> (t \in {"power", "reset"} /\ 100 <= x.v /\ x.v <= 5000))
       /\ ~x.given =>
            /\ (svcPc # "rejected") <=> (t \in {"power", "reset"})
            /\ svcPc # "rejected" => svcArgs.duration = 100
       /\ svcPc = "rejected" => (svcSent = {} /\ svcArgs = NoArgs)
       /\ (svcPc # "rejected" /\ x.given) => svcArgs.duration = x.v
       /\ svcPc # "rejected" =>
            svcArgs.gpio = (IF t = "power" THEN "POWER" ELSE "RESET")

\* The longest accepted push has been dispatched to every device.
C12_Witness ==
  /\ svcName = "push_button"
  /\ svcPc = "returned"
  /\ svcData.duration = [given |-> TRUE, kind |-> "int", v |-> 5000]
  /\ svcData.button_type = "reset"
  /\ svcSent = Devices

\* A push of 99 ms was refused.
C12_WitnessRejected ==
  /\ svcName = "push_button"
  /\ svcPc = "rejected"
  /\ svcData.duration = [given |-> TRUE, kind |-> "int", v |-> 99]
  /\ svcData.button_type = "power"

\* C13: a set-up whose authenticate or get_info raised an authentication
\* error has returned False, and the host does not set the entry up again;
\* one whose call raised another error has raised ConfigEntryNotReady; in
\* both cases, as long as set-up has not succeeded, no coordinator is in
\* hass.data, no platform is set up and no service is registered.
C13_SetupFailure ==
  /\ setupErr.kind = "auth" =>
       (entry = "setup_failed" /\ ~ENABLED SetupAuthenticate)
  /\ setupErr.kind = "comm" => entry = "not_ready"
  /\ entry \in {"setup_failed", "not_ready"} => (hass = {} /\ svcPc = "none")

\* get_info was rejected after authenticate had returned.
C13_Witness ==
  /\ entry = "setup_failed"
  /\ setupErr = [call |-> "get_info", kind |-> "auth"]
  /\ token

\* authenticate failed with a transport error.
C13_WitnessNotReady ==
  /\ entry = "not_ready"
  /\ setupErr = [call |-> "authenticate", kind |-> "comm"]

\* C14: while the refresh awaits an authenticate call (line 267 or 301) no
\* step changes an attribute or coordinator.data; the read calls are made
\* with a token; and a refresh turns into a success only by the last read
\* call of a pass whose earlier read calls have all returned since the pass
\* began, that is since the last authenticate.
C14_TokenAndSnapshot ==
  [][ /\ rpc \in {"auth", "reauth"} => (fields' = fields /\ data' = data)
      /\ rpc = "read" => token
      /\ (outcome' = "success" /\ outcome # "success") =>
           /\ rpc = "read"
           /\ token
           /\ idx = NumReads
           /\ sinceAuth = NumReads - 1
           /\ data' = fields' ]_vars

\* A refresh that authenticated at its start, was rejected, authenticated
\* again and succeeded, on an entry that had a snapshot before.
C14_Witness ==
  /\ Ended
  /\ outcome = "success"
  /\ entry = "loaded"
  /\ initAuth = "ok"
  /\ reauths = 1
  /\ lastReauth = "ok"
  /\ startFields["cdrom_status"] # None

(***************************************************************************)
(* The refresh cycle with the time its device calls take.                  *)
(***************************************************************************)
TimedNext ==
  \/ SetupAuthenticate
  \/ SetupGetInfo
  \/ SetupFirstRefresh
  \/ SetupFinish
  \/ Tick
  \/ TickDone
  \/ UpdateAuthenticate
  \/ UpdateRead
  \/ UpdateReauthenticate
  \/ TokenLost
  \/ TimePasses

TimedSpec == Init /\ [][TimedNext]_vars

\* C15: when a refresh invocation has ended, the time it has waited on its
\* device calls is no more than the timeout of the batch.
C15_TotalLatencyBounded == Ended => elapsed <= BATCH_TIMEOUT

\* C16: a handler that was called returns, whatever its client calls raise,
\* after it has called the client of every device in hass.data; in its loop
\* the devices before the current one have all been called, those that
\* raised included; and a step of the handler leaves the set-up, the
\* coordinator, its refresh and the entity operations as they are.
C16_ServiceFailureContained ==
  [][ /\ svcPc # "raised"
      /\ svcFailed \subseteq svcSent
      /\ svcPc = "handler" => svcSent = 1..(svcNext - 1)
      /\ svcPc = "returned" => svcSent = Devices
      /\ svcSent' # svcSent =>
           UNCHANGED << entry, setupVars, timeVars, coordVars, refreshVars,
                        histVars, opVars, pollVars >> ]_vars

\* The call failed on the first device and was made on every other one.
C16_Witness ==
  /\ svcPc = "returned"
  /\ svcName = "reboot"
  /\ 1 \in svcFailed
  /\ svcSent = Devices
  /\ NumDevices \notin svcFailed

\* The order of the read calls as it is claimed.
ClaimedOrder ==
  << "get_info", "get_hardware", "get_gpio", "get_virtual_device_status",
     "get_ssh_state", "get_mdns_state", "get_hid_mode", "get_oled_info",
     "get_wifi_status", "get_mounted_image", "get_cdrom_status" >>

\* C17: in a pass the k-th read call is awaited when exactly the k-1 calls
\* before it have returned; what a step of the pass stores is the reply of
\* the k-th call of the claimed order; and a read call that raises ends the
\* pass: the refresh re-authenticates or ends, it issues no further read
\* call of that pass.
C17_ReadsInOrder ==
  [][ rpc = "read" =>
        /\ idx = sinceAuth + 1
        /\ idx <= Len(ClaimedOrder)
        /\ \A f \in FieldSet :
             fields'[f] # fields[f] => fields'[f].call = ClaimedOrder[idx]
        /\ (rpc' = "read" /\ idx' # idx) => (idx' = idx + 1 /\ failedCall' = "none")
        /\ failedCall' = "read" =>
             (rpc' \in {"reauth", "ended"} /\ fields' = fields) ]_vars

\* The third read call of the first pass raised: the attributes of the
\* calls after it are still unset.
C17_Witness ==
  /\ Ended
  /\ failedCall = "read"
  /\ reauths = 0
  /\ fields["hardware_info"] # None
  /\ fields["gpio_info"] = None
  /\ fields["cdrom_status"] = None

\* A refresh has ended in which the device accepted the credentials at
\* every authenticate call made and every read call of the last pass
\* returned: no call's error ended it.
DeviceAnswered == entry = "loaded" /\ Ended /\ failedCall = "none"

\* C18: whatever the refreshes before it left behind (no token, a token the
\* device rejects, attributes of several cycles), a refresh of a loaded
\* entry in which the device answers succeeds with a dict that holds the
\* reply of every read call and no None, and leaves the token set; and a
\* loaded entry whose refresh is over can always start the next one.
C18_RecoversAfterFailure ==
  /\ DeviceAnswered =>
       /\ outcome = "success"
       /\ token
       /\ \A i \in 1..NumReads :
            data[FieldNames[i]] # None /\ data[FieldNames[i]] = ReplyOf(i)
       /\ fields = data
  /\ (entry = "loaded" /\ rpc = "idle") => ENABLED Tick

\* A refresh succeeded that started without a token and with attributes a
\* failed refresh had left mixed, and whose first read call was rejected.
C18_Witness ==
  /\ DeviceAnswered
  /\ startFields["device_info"].gen = MaxGen
  /\ startFields["cdrom_status"].gen = 1
  /\ initAuth = "ok"
  /\ reauths = 1

\* C19: a turn_off that returns confirmed has seen a refresh succeed after
\* the button push with power read off (counted here: any refresh that
\* ended after the push, the routine's own or the scheduled one).
C19_ConfirmedByFreshSuccess ==
  (op = "power_off" /\ opResult = "confirmed") => okOff


\* C20: the step in which a device call of a refresh (authenticate, a read
\* call or the re-authentication) fails with an error other than an
\* authentication error ends the invocation: no retry is entered, the token
\* is as before, and the ended invocation issues no call and touches no
\* token until the host resumes the caller.
C20_OtherErrorEndsInvocation ==
  [][ /\ (rpc \in {"auth", "read", "reauth"} /\ failKind' \in {"comm", "timeout"})
         => /\ rpc' = "ended"
            /\ token' = token
            /\ depth' = depth
            /\ passes' = passes
      /\ (rpc = "ended" /\ failKind \in {"comm", "timeout"})
         => /\ rpc' \in {"ended", "idle"}
            /\ token' = token
            /\ rpc' = "ended" => /\ reads' = reads
                                 /\ reauths' = reauths
                                 /\ initAuth' = initAuth ]_vars

\* The batch of a first pass timed out after two read calls had returned:
\* the invocation ended with the token held and no re-authentication.
C20_Witness ==
  /\ rpc = "ended"
  /\ failedCall = "read"
  /\ failKind = "timeout"
  /\ reads = 3
  /\ reauths = 0
  /\ depth = 0
  /\ token
  /\ outcome = "comm_failed"


PowerOps == {"power_on", "power_off"}

\* C21: one turn_off or turn_on of the power switch pushes the button once,
\* before its first refresh request: whenever it has requested a refresh
\* or polled, exactly one push has returned and none follows, at the
\* polls and at the timeout alike; and when the push raised, the routine
\* is over without a poll, a sleep or a refresh request.
C21_OnePushThenRefreshes ==
  op \in PowerOps =>
    /\ opIssued = (IF opResult = "error" THEN 0 ELSE 1)
    /\ opResult = "error" =>
         /\ opPc = "done"
         /\ opRefreshes = 0
         /\ polls = 0
         /\ slept = 0
         /\ caller # "op"
    /\ (opRefreshes > 0 \/ polls > 0 \/ caller = "op") => opIssued = 1

\* turn_off ran into its timeout after MaxPolls polls: one push, then only
\* refresh requests.
C21_Witness ==
  /\ op = "power_off"
  /\ opResult = "not_confirmed"
  /\ polls >= 2
  /\ opRefreshes >= 3
  /\ opIssued = 1

\* The push of turn_off raised.
C21_WitnessFailed ==
  /\ op = "power_off"
  /\ opResult = "error"
  /\ opPc = "done"


\* The attributes the entities read are all set.
NoFieldAbsent(fs) == \A f \in FieldSet : fs[f] # None

\* C22: a coordinator is in hass.data, and entities exist, only after a
\* first refresh returned its dict; while entities exist no attribute they
\* read is None, whatever refreshes failed or stopped half-way since; after
\* a successful unload the coordinator is no longer in hass.data, after a
\* failed one it still is.
C22_StoredAfterFirstSuccess ==
  /\ "coordinator" \in hass =>
       /\ entry \in {"loaded", "failed_unload"}
       /\ NoFieldAbsent(data)
  /\ "platforms" \in hass =>
       /\ "coordinator" \in hass
       /\ NoFieldAbsent(fields)
  /\ entry \in {"new", "setup_info", "first_refresh", "first_wait"} =>
       "coordinator" \notin hass
  /\ entry = "unloaded" => ("coordinator" \notin hass /\ "platforms" \notin hass)
  /\ entry = "failed_unload" => "coordinator" \in hass

\* An unload failed on an entry whose last refresh had stopped half-way:
\* the coordinator is still stored, with attributes of two cycles.
C22_Witness ==
  /\ entry = "failed_unload"
  /\ "platforms" \in hass
  /\ fields # data
  /\ fields["device_info"].gen = MaxGen
  /\ fields["cdrom_status"].gen = 1

\* An unload succeeded.
C22_WitnessUnloaded ==
  /\ entry = "unloaded"
  /\ hass = {"services"}


\* The entries of device d.
EntriesOf(d) == {i \in 1..Len(entries) : entries[i].device = d}

\* C23: whatever flows have run, started by the user or by zeroconf, no
\* device has two config entries.
C23_OneEntryPerDevice == \A d \in Devices : Cardinality(EntriesOf(d)) <= 1


\* C24: every config entry holds the account with which validate_input
\* succeeded against its device; and in a zeroconf flow whose probe with
\* the default account failed, validate_input is never called, and so no
\* entry created, with a password that the user has not submitted in the
\* form of step "user".
C24_ValidatedWithEnteredPassword ==
  /\ \A i \in 1..Len(entries) :
       entries[i].credentials = DeviceCredentials(entries[i].device)
  /\ (flow.source = "zeroconf" /\ flow.probe = "auth") => ~flow.unentered

====
